---- MODULE Spec2Model ----
(***************************************************************************)
(* A model of octobuild's output cache (src/cache.rs) and of the MSVC      *)
(* command line parser (src/vs/prepare.rs).                                *)
(*                                                                         *)
(* The cache is modelled at the granularity of its file operations: every  *)
(* File::open / File::create / read / write of run_cached is one step of   *)
(* the calling process, so that calls of several processes interleave.     *)
(* Files hold bytes; the entry file is written in place at the writer's    *)
(* own offset and read at the reader's own offset, as the code does.       *)
(***************************************************************************)
EXTENDS Integers, Sequences, FiniteSets, TLC

(***************************************************************************)
(* Bounds of the model.                                                    *)
(***************************************************************************)
\* Number of process slots that may call run_cached.
NProcs == 2
\* Total number of run_cached calls in one behaviour: of calls made one
\* after the other, and of calls made by processes running at once.
MaxCalls == 2
MaxConcCalls == 2
\* Number of faults in one behaviour: entry files damaged on disk, and writes
\* to an entry file that fail with an IoError.
MaxFaults == 1

(***************************************************************************)
(* Program constants.                                                      *)
(***************************************************************************)
\* const HEADER: b"OBCF\x00\x01"
HEADER == <<79, 66, 67, 70, 0, 1>>
\* One more than the largest u8 / u16.
U8 == 256
U16 == 65536

Procs == 1..NProcs

\* The contents a worker may give an output file: no byte, or one.
Contents == {<<>>, <<5>>}

\* params of run_cached (a &str, as bytes).
ParamSet == {<<97>>}
InPaths == {"in"}
InputContents == {<<1>>, <<2>>}
InputLists == {<<"in">>}
OutPaths == {"o1", "o2"}
\* The output lists of a call: lists of distinct output files.
OutputLists == {<<>>, <<"o1">>, <<"o1", "o2">>, <<"o2", "o1">>}

VARIABLES
    files,        \* the input and output files that exist: path -> bytes
    cache,        \* the entry files that exist: entry path -> bytes
    pc,           \* where each process is in run_cached
    args,         \* the arguments of the call: [params, inputs, outputs]
    path,         \* the entry path computed by generate_hash
    pos,          \* offset of the process's open entry file (reader or writer)
    idx,          \* index of the for loop over paths
    size,         \* read_cache: the size read for the current output
    buf,          \* write_cache: the content read from the current output
    returned,     \* "none", "ok" or "err": what run_cached returned
    worker,       \* [ran, ok, out]: the worker's invocation in this call
    conc,         \* how many calls may run at the same time
    limit,        \* how many calls may be made
    calls,        \* calls made so far
    corrupts,     \* damages done so far
    wfails,       \* failed entry writes so far
    got,          \* history: the contents read_cache unpacked (write_cache packed)
    openedPartial,\* history: read_cache opened an entry that was not complete
    over,         \* history: the processes whose call overlapped this call
    cache0,       \* history: the entry files when the call began
    files0,       \* history: the files when the call began
    expectHit,    \* history: an earlier call packed this entry, with this length
    packed,       \* history: entry path -> contents the last write_cache packed
    argv,         \* parse_arguments: the tokens of the command line
    iter,         \* parse_arguments: the tokens the iterator has yielded
    result,       \* parse_arguments: the Args parsed so far
    errors,       \* parse_arguments: the unknown arguments so far
    ppc,          \* parse_arguments: "off", "parse" or "done"
    ret,          \* parse_arguments: "none", "ok" or "err"
    dirs,             \* create_tasks: the paths that are directories on disk
    tpc,              \* create_tasks: where the call is, "off" when not called
    input_sources,    \* create_tasks: Vec<PathBuf>
    precompiled_file, \* create_tasks: Option<PathBuf> (<<>> is None, <<v>> is Some(v))
    pch_usage,        \* create_tasks: PCHUsage
    output_object,    \* create_tasks: Option<PathBuf>
    language,         \* create_tasks: Option<String>
    tasks,            \* create_tasks: the CompilationTasks returned
    tret,             \* create_tasks: "none", "ok" or "err"
    daemon,       \* daemon: "builder" (octo_builder) or "agent" (octo_agent)
    rx,           \* daemon: the signals sent and not yet received
    mpc,          \* daemon: where the main loop is
    state,        \* daemon: "Stopped", "Starting", "Ready" or "Stopping"
    builder,      \* daemon: the service instance main holds, 0 for None
    dropping,     \* daemon: the service instance being dropped, 0 for none
    started,      \* daemon: the number of service instances made so far
    done,         \* service: the done flag
    listener,     \* service: the listener field holds the socket
    accepter,     \* service: the accepter thread
    anoncer,      \* service: the announcer thread
    toolchains,   \* service: the toolchains of the info it announces
    handlers,     \* service: the handler threads running
    accepted,     \* service: the connections accepted
    sent,         \* history: the announcements a service sent after its done was set
    installed,    \* the toolchains installed on the host
    conns,        \* the connections clients have made
    hargs,        \* generate_hash: the arguments of two calls, [params, contents]
    hstream       \* generate_hash: the bytes each call has fed to the digest

cacheVars == <<files, cache, pc, args, path, pos, idx, size, buf, returned, worker, conc,
          limit, calls, corrupts, wfails, got, openedPartial, over, cache0, files0,
          expectHit, packed>>
parseVars == <<argv, iter, result, errors, ppc, ret>>
taskVars == <<dirs, tpc, input_sources, precompiled_file, pch_usage, output_object,
          language, tasks, tret>>
svcVars == <<daemon, rx, mpc, state, builder, dropping, started, done, listener, accepter,
          anoncer, toolchains, handlers, accepted, sent, installed, conns>>
hashVars == <<hargs, hstream>>
vars == <<cacheVars, parseVars, taskVars, svcVars, hashVars>>
\* What a step of the cache, and a step of the parser, leaves alone.
beyondCache == <<parseVars, taskVars, svcVars, hashVars>>
beyondParse == <<cacheVars, taskVars, svcVars, hashVars>>

(***************************************************************************)
(* Bytes and files.                                                        *)
(***************************************************************************)
\* write_le_u16(n as u16), write_le_u32(n as u32)
le_u16(n) == LET m == n % U16 IN <<m % U8, m \div U8>>
le_u32_BigEndian(n) ==
    <<(n \div (U8 * U8 * U8)) % U8, (n \div (U8 * U8)) % U8, (n \div U8) % U8, n % U8>>
\* (the fourth byte taken modulo 256 is the cut to 32 bits)
le_u32(n) ==
    <<n % U8, (n \div U8) % U8, (n \div (U8 * U8)) % U8, (n \div (U8 * U8 * U8)) % U8>>
\* read_le_u16, read_le_u32 on the bytes read
from_le_u16(b) == b[1] + U8 * b[2]
from_le_u32(b) == b[1] + U8 * b[2] + U8 * U8 * b[3] + U8 * U8 * U8 * b[4]

RECURSIVE Zeros(_)
Zeros(n) == IF n <= 0 THEN <<>> ELSE <<0>> \o Zeros(n - 1)

\* A write of bytes b at offset off of a file holding f: bytes past the end
\* are appended, a gap before off reads as zeros.
WriteAt(f, off, b) ==
    LET base == IF Len(f) < off THEN f \o Zeros(off - Len(f)) ELSE f
    IN SubSeq(base, 1, off) \o b \o SubSeq(base, off + Len(b) + 1, Len(base))

\* read_exact(n) at offset off of a file holding f: the bytes, or an error at
\* the end of the file.
CanRead(f, off, n) == off + n <= Len(f)
ReadExact(f, off, n) == SubSeq(f, off + 1, off + n)

\* A function with one more (or one changed) point.
Put(f, k, v) == (k :> v) @@ f

(***************************************************************************)
(* generate_hash, and the entry format as write_cache lays it out.         *)
(***************************************************************************)
\* The bytes generate_hash feeds the digest: params, a zero byte, then each
\* input's content followed by a zero byte.
RECURSIVE HashInputs(_)
HashInputs(contents) ==
    IF contents = <<>> THEN <<>>
    ELSE Head(contents) \o <<0>> \o HashInputs(Tail(contents))
HashStream(params, contents) == params \o <<0>> \o HashInputs(contents)

\* Path::new("." + hexdigest): SHA-1 is taken to be collision free, so the
\* entry path is determined by, and determines, the hashed byte stream.
EntryPath(stream) == [dir |-> ".", sha1 |-> stream]

\* The contents of the files named by a list of paths.
ContentsOf(fs, paths) == [i \in 1..Len(paths) |-> fs[paths[i]]]

\* The bytes of the entry write_cache writes for a list of contents.
RECURSIVE PackBlocks(_)
PackBlocks(contents) ==
    IF contents = <<>> THEN <<>>
    ELSE le_u32(Len(Head(contents))) \o Head(contents) \o PackBlocks(Tail(contents))
Pack(contents) == HEADER \o le_u16(Len(contents)) \o PackBlocks(contents)

\* read_cache's checks.
HeaderOk_Inverted(bytes) == bytes # HEADER
HeaderOk(bytes) == bytes = HEADER
CountOk_Always(n, outputs) == TRUE
CountOk_Inverted(n, outputs) == n # Len(outputs)
CountOk(n, outputs) == n = Len(outputs)

\* try!(worker()): a failed worker returns its error, a successful one goes
\* on to write_cache.
AfterWorker_Ignored(ok) == "wr_create"
AfterWorker(ok) == IF ok THEN "wr_create" ELSE "done"
\* read_cache returned Ok: run_cached returns Ok(()); Err: it goes on to the worker.
AfterRead(ok) == IF ok THEN "done" ELSE "worker"
\* try!(generate_hash(..)): an unreadable input is returned as the error.
AfterHash(ok) == IF ok THEN "rd_open" ELSE "done"

Running(p) == pc[p] \notin {"idle", "done"}

NoArgs == [params |-> <<>>, inputs |-> <<>>, outputs |-> <<>>]
NoWorker == [ran |-> FALSE, ok |-> FALSE, out |-> <<>>]
NoPath == EntryPath(<<>>)
Empty == [x \in {} |-> <<>>]

\* An entry file is complete when it is exactly what write_cache writes for
\* some list of contents.
RECURSIVE Blocks(_, _, _)
Blocks(f, off, n) ==
    IF n = 0 THEN <<>>
    ELSE IF ~CanRead(f, off, 4) THEN <<>>
    ELSE LET l == from_le_u32(ReadExact(f, off, 4))
         IN IF ~CanRead(f, off + 4, l) THEN <<>>
            ELSE <<ReadExact(f, off + 4, l)>> \o Blocks(f, off + 4 + l, n - 1)
Complete(f) ==
    /\ CanRead(f, 0, 8)
    /\ f = Pack(Blocks(f, 8, from_le_u16(ReadExact(f, 6, 2))))

(***************************************************************************)
(* The initial state: no entry, no output file, the input file present.    *)
(***************************************************************************)
InitCache(c, n) ==
    /\ files = [x \in InPaths |-> <<1>>]
    /\ cache = Empty
    /\ pc = [p \in Procs |-> "idle"]
    /\ args = [p \in Procs |-> NoArgs]
    /\ path = [p \in Procs |-> NoPath]
    /\ pos = [p \in Procs |-> 0]
    /\ idx = [p \in Procs |-> 0]
    /\ size = [p \in Procs |-> 0]
    /\ buf = [p \in Procs |-> <<>>]
    /\ returned = [p \in Procs |-> "none"]
    /\ worker = [p \in Procs |-> NoWorker]
    /\ conc = c
    /\ limit = n
    /\ calls = 0
    /\ corrupts = 0
    /\ wfails = 0
    /\ got = [p \in Procs |-> <<>>]
    /\ openedPartial = [p \in Procs |-> FALSE]
    /\ over = [p \in Procs |-> {}]
    /\ cache0 = [p \in Procs |-> Empty]
    /\ files0 = [p \in Procs |-> Empty]
    /\ expectHit = [p \in Procs |-> FALSE]
    /\ packed = Empty

\* No command line is being parsed.
ParseOff ==
    /\ argv = <<>>
    /\ iter = 0
    /\ result = <<>>
    /\ errors = <<>>
    /\ ppc = "off"
    /\ ret = "none"

\* create_tasks is not called.
NoUsage == [kind |-> "None", path |-> <<>>, path_abs |-> <<>>, marker |-> <<>>]
TasksOff ==
    /\ dirs = {}
    /\ tpc = "off"
    /\ input_sources = <<>>
    /\ precompiled_file = <<>>
    /\ pch_usage = NoUsage
    /\ output_object = <<>>
    /\ language = <<>>
    /\ tasks = <<>>
    /\ tret = "none"

\* Longest sequence of signals sent to the daemon; each Start makes a service.
MaxSignals == 3
Services == 1..MaxSignals
\* No daemon runs.
SvcOff ==
    /\ daemon = "none"
    /\ rx = <<>>
    /\ mpc = "off"
    /\ state = "Stopped"
    /\ builder = 0
    /\ dropping = 0
    /\ started = 0
    /\ done = [i \in Services |-> FALSE]
    /\ listener = [i \in Services |-> FALSE]
    /\ accepter = [i \in Services |-> "none"]
    /\ anoncer = [i \in Services |-> "none"]
    /\ toolchains = [i \in Services |-> {}]
    /\ handlers = [i \in Services |-> 0]
    /\ accepted = [i \in Services |-> 0]
    /\ sent = [i \in Services |-> 0]
    /\ installed = {}
    /\ conns = 0

\* No call of generate_hash is compared with another.
HashOff == hargs = <<>> /\ hstream = <<>>

Init == InitCache(1, MaxCalls) /\ ParseOff /\ TasksOff /\ SvcOff /\ HashOff
InitConc == InitCache(2, MaxConcCalls) /\ ParseOff /\ TasksOff /\ SvcOff /\ HashOff

histVars == <<got, openedPartial, over, cache0, files0, expectHit, packed>>
envVars == <<conc, limit, calls, corrupts, wfails>>

(***************************************************************************)
(* run_cached, one file operation at a time.                               *)
(***************************************************************************)
\* A process calls run_cached(params, inputs, outputs, worker).
Call(p) ==
    /\ pc[p] = "idle"
    /\ calls < limit
    /\ p <= conc
    /\ \E pa \in ParamSet, ins \in InputLists, outs \in OutputLists :
          args' = [args EXCEPT ![p] = [params |-> pa, inputs |-> ins, outputs |-> outs]]
    /\ pc' = [pc EXCEPT ![p] = "hash"]
    /\ calls' = calls + 1
    /\ path' = [path EXCEPT ![p] = NoPath]
    /\ pos' = [pos EXCEPT ![p] = 0]
    /\ idx' = [idx EXCEPT ![p] = 0]
    /\ size' = [size EXCEPT ![p] = 0]
    /\ buf' = [buf EXCEPT ![p] = <<>>]
    /\ returned' = [returned EXCEPT ![p] = "none"]
    /\ worker' = [worker EXCEPT ![p] = NoWorker]
    /\ got' = [got EXCEPT ![p] = <<>>]
    /\ openedPartial' = [openedPartial EXCEPT ![p] = FALSE]
    /\ over' = [q \in Procs |->
                  IF q = p THEN {r \in Procs \ {p} : Running(r)}
                  ELSE IF Running(q) THEN over[q] \cup {p} ELSE over[q]]
    /\ cache0' = [cache0 EXCEPT ![p] = cache]
    /\ files0' = [files0 EXCEPT ![p] = files]
    /\ expectHit' = [expectHit EXCEPT ![p] = FALSE]
    /\ UNCHANGED <<files, cache, conc, limit, corrupts, wfails, packed>>
    /\ UNCHANGED beyondCache

\* generate_hash: reads every input; an input that cannot be read is an error
\* that run_cached returns.
Hash(p) ==
    /\ pc[p] = "hash"
    /\ LET ins == args[p].inputs
           ok == \A i \in 1..Len(ins) : ins[i] \in DOMAIN files
           k == EntryPath(HashStream(args[p].params, ContentsOf(files, ins)))
       IN /\ pc' = [pc EXCEPT ![p] = AfterHash(ok)]
          /\ returned' = [returned EXCEPT ![p] = IF ok THEN "none" ELSE "err"]
          /\ path' = [path EXCEPT ![p] = IF ok THEN k ELSE NoPath]
          /\ expectHit' = [expectHit EXCEPT ![p] =
                /\ ok
                /\ k \in DOMAIN packed
                /\ Len(packed[k]) = Len(args[p].outputs)]
    /\ UNCHANGED <<files, cache, args, pos, idx, size, buf, worker, envVars,
                   got, openedPartial, over, cache0, files0, packed>>
    /\ UNCHANGED beyondCache

\* read_cache fails: run_cached goes on to the worker.
Miss(p) ==
    /\ pc' = [pc EXCEPT ![p] = AfterRead(FALSE)]
    /\ UNCHANGED <<returned>>

\* read_cache returns Ok(()): run_cached returns Ok(()).
Hit(p) ==
    /\ pc' = [pc EXCEPT ![p] = AfterRead(TRUE)]
    /\ returned' = [returned EXCEPT ![p] = IF AfterRead(TRUE) = "done" THEN "ok" ELSE "none"]

\* File::open(path) of the entry file.
RdOpen(p) ==
    /\ pc[p] = "rd_open"
    /\ IF path[p] \in DOMAIN cache
       THEN /\ pc' = [pc EXCEPT ![p] = "rd_header"]
            /\ openedPartial' = [openedPartial EXCEPT ![p] = ~Complete(cache[path[p]])]
            /\ UNCHANGED returned
       ELSE /\ Miss(p)
            /\ UNCHANGED openedPartial
    /\ pos' = [pos EXCEPT ![p] = 0]
    /\ UNCHANGED <<files, cache, args, path, idx, size, buf, worker, envVars,
                   got, over, cache0, files0, expectHit, packed>>
    /\ UNCHANGED beyondCache

\* file.read_exact(HEADER.len()) != HEADER
RdHeader(p) ==
    /\ pc[p] = "rd_header"
    /\ LET f == cache[path[p]]
       IN IF CanRead(f, pos[p], Len(HEADER)) /\ HeaderOk(ReadExact(f, pos[p], Len(HEADER)))
          THEN /\ pc' = [pc EXCEPT ![p] = "rd_count"]
               /\ pos' = [pos EXCEPT ![p] = pos[p] + Len(HEADER)]
               /\ UNCHANGED returned
          ELSE /\ Miss(p)
               /\ UNCHANGED pos
    /\ UNCHANGED <<files, cache, args, path, idx, size, buf, worker, envVars, histVars>>
    /\ UNCHANGED beyondCache

\* file.read_le_u16() as usize != paths.len(); with no path the loop is empty
\* and read_cache returns Ok.
RdCount(p) ==
    /\ pc[p] = "rd_count"
    /\ LET f == cache[path[p]]
       IN IF CanRead(f, pos[p], 2) /\ CountOk(from_le_u16(ReadExact(f, pos[p], 2)), args[p].outputs)
          THEN /\ pos' = [pos EXCEPT ![p] = pos[p] + 2]
               /\ idx' = [idx EXCEPT ![p] = 1]
               /\ IF Len(args[p].outputs) = 0
                  THEN Hit(p)
                  ELSE /\ pc' = [pc EXCEPT ![p] = "rd_size"]
                       /\ UNCHANGED returned
          ELSE /\ Miss(p)
               /\ UNCHANGED <<pos, idx>>
    /\ UNCHANGED <<files, cache, args, path, size, buf, worker, envVars, histVars>>
    /\ UNCHANGED beyondCache

\* let size = file.read_le_u32()
RdSize(p) ==
    /\ pc[p] = "rd_size"
    /\ LET f == cache[path[p]]
       IN IF CanRead(f, pos[p], 4)
          THEN /\ size' = [size EXCEPT ![p] = from_le_u32(ReadExact(f, pos[p], 4))]
               /\ pos' = [pos EXCEPT ![p] = pos[p] + 4]
               /\ pc' = [pc EXCEPT ![p] = "rd_content"]
               /\ UNCHANGED returned
          ELSE /\ Miss(p)
               /\ UNCHANGED <<size, pos>>
    /\ UNCHANGED <<files, cache, args, path, idx, buf, worker, envVars, histVars>>
    /\ UNCHANGED beyondCache

\* let content = file.read_exact(size); File::create(path).write(content);
\* after the last path read_cache returns Ok.
RdContent(p) ==
    /\ pc[p] = "rd_content"
    /\ LET f == cache[path[p]]
           outs == args[p].outputs
       IN IF CanRead(f, pos[p], size[p])
          THEN LET content == ReadExact(f, pos[p], size[p])
               IN /\ files' = Put(files, outs[idx[p]], content)
                  /\ got' = [got EXCEPT ![p] = Append(got[p], content)]
                  /\ pos' = [pos EXCEPT ![p] = pos[p] + size[p]]
                  /\ idx' = [idx EXCEPT ![p] = idx[p] + 1]
                  /\ IF idx[p] = Len(outs)
                     THEN Hit(p)
                     ELSE /\ pc' = [pc EXCEPT ![p] = "rd_size"]
                          /\ UNCHANGED returned
          ELSE /\ Miss(p)
               /\ UNCHANGED <<files, got, pos, idx>>
    /\ UNCHANGED <<cache, args, path, size, buf, worker, envVars,
                   openedPartial, over, cache0, files0, expectHit, packed>>
    /\ UNCHANGED beyondCache

\* worker(): it fails, or it produces every file of the output list.
Worker(p) ==
    /\ pc[p] = "worker"
    /\ \/ /\ worker' = [worker EXCEPT ![p] = [ran |-> TRUE, ok |-> FALSE, out |-> <<>>]]
          /\ pc' = [pc EXCEPT ![p] = AfterWorker(FALSE)]
          /\ returned' = [returned EXCEPT ![p] = IF AfterWorker(FALSE) = "done" THEN "err" ELSE "none"]
          /\ UNCHANGED files
       \/ \E out \in [1..Len(args[p].outputs) -> Contents] :
             /\ worker' = [worker EXCEPT ![p] = [ran |-> TRUE, ok |-> TRUE, out |-> out]]
             /\ files' = [x \in DOMAIN files \cup {args[p].outputs[i] : i \in 1..Len(out)} |->
                            IF \E i \in 1..Len(out) : args[p].outputs[i] = x
                            THEN out[CHOOSE i \in 1..Len(out) : args[p].outputs[i] = x]
                            ELSE files[x]]
             /\ pc' = [pc EXCEPT ![p] = AfterWorker(TRUE)]
             /\ UNCHANGED returned
    /\ got' = [got EXCEPT ![p] = <<>>]
    /\ UNCHANGED <<cache, args, path, pos, idx, size, buf, envVars,
                   openedPartial, over, cache0, files0, expectHit, packed>>
    /\ UNCHANGED beyondCache

\* The entry file is complete: write_cache returns Ok(()) and so does run_cached.
Written(p) ==
    /\ pc' = [pc EXCEPT ![p] = "done"]
    /\ returned' = [returned EXCEPT ![p] = "ok"]
    /\ packed' = Put(packed, path[p], got'[p])

\* One more entry file without key k.
Without(f, k) == [x \in DOMAIN f \ {k} |-> f[x]]

\* File::create(path): the entry file is created, or truncated in place.
WrCreate(p) ==
    /\ pc[p] = "wr_create"
    /\ cache' = Put(cache, path[p], <<>>)
    /\ pos' = [pos EXCEPT ![p] = 0]
    /\ pc' = [pc EXCEPT ![p] = "wr_header"]
    /\ packed' = Without(packed, path[p])
    /\ UNCHANGED <<files, args, path, idx, size, buf, returned, worker, envVars,
                   got, openedPartial, over, cache0, files0, expectHit>>
    /\ UNCHANGED beyondCache

\* file.write(HEADER)
WrHeader(p) ==
    /\ pc[p] = "wr_header"
    /\ cache' = Put(cache, path[p], WriteAt(cache[path[p]], pos[p], HEADER))
    /\ pos' = [pos EXCEPT ![p] = pos[p] + Len(HEADER)]
    /\ pc' = [pc EXCEPT ![p] = "wr_count"]
    /\ UNCHANGED <<files, args, path, idx, size, buf, returned, worker, envVars, histVars>>
    /\ UNCHANGED beyondCache

\* file.write_le_u16(paths.len() as u16); with no path the loop is empty.
WrCount(p) ==
    /\ pc[p] = "wr_count"
    /\ cache' = Put(cache, path[p], WriteAt(cache[path[p]], pos[p], le_u16(Len(args[p].outputs))))
    /\ pos' = [pos EXCEPT ![p] = pos[p] + 2]
    /\ idx' = [idx EXCEPT ![p] = 1]
    /\ got' = got
    /\ IF Len(args[p].outputs) = 0
       THEN Written(p)
       ELSE /\ pc' = [pc EXCEPT ![p] = "wr_read"]
            /\ UNCHANGED <<returned, packed>>
    /\ UNCHANGED <<files, args, path, size, buf, worker, envVars,
                   openedPartial, over, cache0, files0, expectHit>>
    /\ UNCHANGED beyondCache

\* let content = File::open(path).read_to_end(): an output file that does not
\* exist is an error that write_cache, and so run_cached, returns.
WrRead(p) ==
    /\ pc[p] = "wr_read"
    /\ LET o == args[p].outputs[idx[p]]
       IN IF o \in DOMAIN files
          THEN /\ buf' = [buf EXCEPT ![p] = files[o]]
               /\ got' = [got EXCEPT ![p] = Append(got[p], files[o])]
               /\ pc' = [pc EXCEPT ![p] = "wr_size"]
               /\ UNCHANGED returned
          ELSE /\ pc' = [pc EXCEPT ![p] = "done"]
               /\ returned' = [returned EXCEPT ![p] = "err"]
               /\ UNCHANGED <<buf, got>>
    /\ UNCHANGED <<files, cache, args, path, pos, idx, size, worker, envVars,
                   openedPartial, over, cache0, files0, expectHit, packed>>
    /\ UNCHANGED beyondCache

\* file.write_le_u32(content.len() as u32)
WrSize(p) ==
    /\ pc[p] = "wr_size"
    /\ cache' = Put(cache, path[p], WriteAt(cache[path[p]], pos[p], le_u32(Len(buf[p]))))
    /\ pos' = [pos EXCEPT ![p] = pos[p] + 4]
    /\ pc' = [pc EXCEPT ![p] = "wr_content"]
    /\ UNCHANGED <<files, args, path, idx, size, buf, returned, worker, envVars, histVars>>
    /\ UNCHANGED beyondCache

\* file.write(content.as_slice()); after the last path write_cache returns Ok.
WrContent(p) ==
    /\ pc[p] = "wr_content"
    /\ cache' = Put(cache, path[p], WriteAt(cache[path[p]], pos[p], buf[p]))
    /\ pos' = [pos EXCEPT ![p] = pos[p] + Len(buf[p])]
    /\ idx' = [idx EXCEPT ![p] = idx[p] + 1]
    /\ got' = got
    /\ IF idx[p] = Len(args[p].outputs)
       THEN Written(p)
       ELSE /\ pc' = [pc EXCEPT ![p] = "wr_read"]
            /\ UNCHANGED <<returned, packed>>
    /\ UNCHANGED <<files, args, path, size, buf, worker, envVars,
                   openedPartial, over, cache0, files0, expectHit>>
    /\ UNCHANGED beyondCache

\* A File::create or a write of write_cache fails with an IoError (a full
\* disk, say): try! returns it, and what was written so far stays.
WrFail(p) ==
    /\ pc[p] \in {"wr_create", "wr_header", "wr_count", "wr_size", "wr_content"}
    /\ corrupts + wfails < MaxFaults
    /\ wfails' = wfails + 1
    /\ pc' = [pc EXCEPT ![p] = "done"]
    /\ returned' = [returned EXCEPT ![p] = "err"]
    /\ UNCHANGED <<files, cache, args, path, pos, idx, size, buf, worker,
                   conc, limit, calls, corrupts, histVars>>
    /\ UNCHANGED beyondCache

\* The caller has taken the result of run_cached: the locals of the call are gone.
Return(p) ==
    /\ pc[p] = "done"
    /\ pc' = [pc EXCEPT ![p] = "idle"]
    /\ args' = [args EXCEPT ![p] = NoArgs]
    /\ path' = [path EXCEPT ![p] = NoPath]
    /\ pos' = [pos EXCEPT ![p] = 0]
    /\ idx' = [idx EXCEPT ![p] = 0]
    /\ size' = [size EXCEPT ![p] = 0]
    /\ buf' = [buf EXCEPT ![p] = <<>>]
    /\ returned' = [returned EXCEPT ![p] = "none"]
    /\ worker' = [worker EXCEPT ![p] = NoWorker]
    /\ got' = [got EXCEPT ![p] = <<>>]
    /\ openedPartial' = [openedPartial EXCEPT ![p] = FALSE]
    /\ over' = [q \in Procs |-> IF q = p THEN {} ELSE over[q] \ {p}]
    /\ cache0' = [cache0 EXCEPT ![p] = Empty]
    /\ files0' = [files0 EXCEPT ![p] = Empty]
    /\ expectHit' = [expectHit EXCEPT ![p] = FALSE]
    /\ UNCHANGED <<files, cache, envVars, packed>>
    /\ UNCHANGED beyondCache

(***************************************************************************)
(* The environment: the inputs change between builds, and an entry file    *)
(* may be damaged on disk.                                                 *)
(***************************************************************************)
Quiet == \A p \in Procs : pc[p] = "idle"

\* An input file is edited.
EditInput(x, c) ==
    /\ Quiet
    /\ IF x \in DOMAIN files THEN files[x] # c ELSE TRUE
    /\ files' = Put(files, x, c)
    /\ UNCHANGED <<cache, pc, args, path, pos, idx, size, buf, returned, worker,
                   envVars, histVars>>
    /\ UNCHANGED beyondCache

\* An input file is removed.
RemoveInput(x) ==
    /\ Quiet
    /\ x \in DOMAIN files
    /\ files' = Without(files, x)
    /\ UNCHANGED <<cache, pc, args, path, pos, idx, size, buf, returned, worker,
                   envVars, histVars>>
    /\ UNCHANGED beyondCache

\* A complete entry file is damaged: its first byte is overwritten (the magic
\* no longer matches), or its last byte is lost.
Damaged(f, kind) ==
    IF kind = "magic" THEN <<0>> \o Tail(f) ELSE SubSeq(f, 1, Len(f) - 1)

Corrupt(k, kind) ==
    /\ Quiet
    /\ corrupts + wfails < MaxFaults
    /\ k \in DOMAIN cache
    /\ Complete(cache[k])
    /\ corrupts' = corrupts + 1
    /\ cache' = Put(cache, k, Damaged(cache[k], kind))
    /\ packed' = Without(packed, k)
    /\ UNCHANGED <<files, pc, args, path, pos, idx, size, buf, returned, worker,
                   conc, limit, calls, wfails, got, openedPartial, over, cache0, files0,
                   expectHit>>
    /\ UNCHANGED beyondCache

Step(p) ==
    \/ Call(p)
    \/ Hash(p)
    \/ RdOpen(p)
    \/ RdHeader(p)
    \/ RdCount(p)
    \/ RdSize(p)
    \/ RdContent(p)
    \/ Worker(p)
    \/ WrCreate(p)
    \/ WrHeader(p)
    \/ WrCount(p)
    \/ WrRead(p)
    \/ WrSize(p)
    \/ WrContent(p)
    \/ WrFail(p)
    \/ Return(p)

Env ==
    \/ \E x \in InPaths, c \in InputContents : EditInput(x, c)
    \/ \E x \in InPaths : RemoveInput(x)
    \/ \E k \in DOMAIN cache, kind \in {"magic", "short"} : Corrupt(k, kind)

Next == (\E p \in Procs : Step(p)) \/ Env

\* Calls of run_cached one after the other.
Spec == Init /\ [][Next]_vars
\* Calls of run_cached by two processes at once, on unchanged inputs.
NextConc == \E p \in Procs : Step(p)
SpecConc == InitConc /\ [][NextConc]_vars

(***************************************************************************)
(* The claims about the cache.                                             *)
(***************************************************************************)
Outs(p) == args[p].outputs
\* The call of p ended with read_cache returning Ok.
ReadOk(p) == pc[p] = "done" /\ returned[p] = "ok" /\ ~worker[p].ran
\* The output files of p's list hold the contents c, in list order.
Holds(p, c) ==
    /\ Len(c) = Len(Outs(p))
    /\ \A i \in 1..Len(c) : Outs(p)[i] \in DOMAIN files /\ files[Outs(p)[i]] = c[i]
\* The files of paths xs are in fs as they are in gs.
Same(fs, gs, xs) ==
    \A x \in xs : /\ x \in DOMAIN fs <=> x \in DOMAIN gs
                  /\ x \in DOMAIN fs => fs[x] = gs[x]
Listed(p) == {Outs(p)[i] : i \in 1..Len(Outs(p))}

\* What section 6 of the specification has a reader reject, of a file f read
\* for n outputs.
BadMagic(f) == Len(f) < 6 \/ SubSeq(f, 1, 6) # <<79, 66, 67, 70, 0, 1>>
BadCount(f, n) == Len(f) < 8 \/ f[7] + 256 * f[8] # n
RECURSIVE ShortBlocks(_, _, _)
ShortBlocks(f, off, n) ==
    /\ n > 0
    /\ \/ off + 4 > Len(f)
       \/ LET l == f[off + 1] + 256 * f[off + 2] + 65536 * f[off + 3] + 16777216 * f[off + 4]
          IN off + 4 + l > Len(f) \/ ShortBlocks(f, off + 4 + l, n - 1)
Rejected(f, n) == BadMagic(f) \/ BadCount(f, n) \/ ShortBlocks(f, 8, n)

\* C1: a call on an entry that an earlier successful call packed for an output
\* list of the same length, and that nothing touched since, returns Ok without
\* invoking the worker, and leaves in outputs[i] the bytes packed for place i.
C1_CacheHit ==
    \A p \in Procs :
        pc[p] = "done" /\ expectHit[p] =>
            /\ returned[p] = "ok"
            /\ ~worker[p].ran
            /\ Holds(p, packed[path[p]])
C1_Witness ==
    \E p \in Procs :
        /\ pc[p] = "done" /\ expectHit[p] /\ returned[p] = "ok"
        /\ Len(Outs(p)) = 2
        /\ files[Outs(p)[1]] # files[Outs(p)[2]]

\* C2: a call that finds no valid entry invokes the worker; after a call that
\* invoked the worker the output files are the ones the worker produced, no
\* other output file is altered (by the failed read_cache neither), and when
\* the call returned Ok the entry file packs the worker's files.
NoValidEntry(p) ==
    \/ path[p] \notin DOMAIN cache0[p]
    \/ Rejected(cache0[p][path[p]], Len(Outs(p)))
C2_Miss ==
    \A p \in Procs :
        /\ pc[p] = "done" /\ path[p] # NoPath /\ NoValidEntry(p) => worker[p].ran
        /\ pc[p] = "done" /\ worker[p].ran =>
              /\ worker[p].ok => Holds(p, worker[p].out)
              /\ Same(files, files0[p], OutPaths \ (IF worker[p].ok THEN Listed(p) ELSE {}))
              /\ returned[p] = "ok" => cache[path[p]] = Pack(worker[p].out)

\* C3: of two calls on the same entry path that overlap in time, at most one
\* invokes its worker (here: at most one runs a worker that succeeds).
C3_WorkerAtMostOnce ==
    \A p \in Procs : \A q \in over[p] :
        path[p] # NoPath /\ path[p] = path[q] =>
            ~(worker[p].ran /\ worker[p].ok /\ worker[q].ran /\ worker[q].ok)

\* C4: read_cache never opens an entry file that is not a complete entry.
C4_AtomicWrites == \A p \in Procs : ~openedPartial[p]

\* C5: what write_cache wrote for the contents O reads back as O, in order:
\* the bytes are header, count and sized blocks, and a read_cache that returns
\* Ok has unpacked exactly the contents the entry file packs (those
\* write_cache packed) into its output files.
C5_RoundTrip ==
    /\ \A k \in DOMAIN packed :
          /\ ~Rejected(cache[k], Len(packed[k]))
          /\ Blocks(cache[k], 8, Len(packed[k])) = packed[k]
    /\ \A p \in Procs :
          ReadOk(p) =>
              /\ cache[path[p]] = Pack(got[p])
              /\ path[p] \in DOMAIN packed => got[p] = packed[path[p]]
              /\ Holds(p, got[p])
C5_Witness ==
    \E p \in Procs :
        /\ ReadOk(p)
        /\ Len(got[p]) = 2
        /\ got[p][1] = <<>> /\ got[p][2] # <<>>
        /\ Outs(p) # <<"o1", "o2">>

\* C6: a call that finds an entry file a reader must reject (wrong magic,
\* another count, a length beyond the end of the file) invokes the worker, and
\* when it returns Ok the entry file is a complete entry of the worker's files.
C6_CorruptReplaced ==
    \A p \in Procs :
        pc[p] = "done" /\ path[p] \in DOMAIN cache0[p]
          /\ Rejected(cache0[p][path[p]], Len(Outs(p))) =>
            /\ worker[p].ran
            /\ returned[p] = "ok" => cache[path[p]] = Pack(worker[p].out)
C6_Witness ==
    \E p \in Procs :
        /\ pc[p] = "done" /\ returned[p] = "ok" /\ path[p] \in DOMAIN cache0[p]
        /\ LET f == cache0[p][path[p]]
           IN /\ ~BadMagic(f) /\ ~BadCount(f, Len(Outs(p)))
              /\ ShortBlocks(f, 8, Len(Outs(p)))
              /\ Len(f) + 1 = Len(cache[path[p]])

\* C7: when the worker fails, run_cached returns the error, no entry file is
\* created or changed, and the entry is still not one a call like this hits.
C7_FailedWorkerNotCached ==
    \A p \in Procs :
        pc[p] = "done" /\ worker[p].ran /\ ~worker[p].ok =>
            /\ returned[p] = "err"
            /\ cache = cache0[p]
            /\ path[p] \in DOMAIN cache => Rejected(cache[path[p]], Len(Outs(p)))
C7_Witness ==
    \E p \in Procs :
        /\ pc[p] = "done" /\ worker[p].ran /\ ~worker[p].ok
        /\ path[p] \in DOMAIN cache
        /\ Complete(cache[path[p]])

\* C8: run_cached returns an error only when the worker failed.
C8_OnlyWorkerErrors ==
    \A p \in Procs :
        pc[p] = "done" /\ returned[p] = "err" => worker[p].ran /\ ~worker[p].ok

\* C9, as claimed: no step of run_cached changes the bytes of a complete entry
\* file (only damage from outside does).
C9_Immutable ==
    [][\A k \in DOMAIN cache :
          Complete(cache[k]) => corrupts' # corrupts \/ cache'[k] = cache[k]]_vars
\* C9, amended: with calls made one after the other, a complete entry file is
\* changed only by a call whose output list has another length than the
\* entry's count, which replaces it.
C9_ImmutableForSameLength ==
    [][\A k \in DOMAIN cache :
          Complete(cache[k]) /\ cache'[k] # cache[k] =>
              \/ corrupts' # corrupts
              \/ \E p \in Procs :
                    /\ pc[p] = "wr_create" /\ path[p] = k
                    /\ Len(Outs(p)) # from_le_u16(ReadExact(cache[k], 6, 2))]_vars
C9_Witness ==
    \E p \in Procs :
        /\ ReadOk(p)
        /\ Len(Outs(p)) = 1
        /\ cache = cache0[p]
        /\ calls = 2

(***************************************************************************)
(* The MSVC command line parser (src/vs/prepare.rs).  A token, a flag and  *)
(* a value are strings, modelled as sequences of characters.               *)
(***************************************************************************)
\* Longest command line, the fixture of test_parse_argument apart.
MaxArgs == 3

\* s.starts_with(pre)
StartsWith(s, pre) == Len(s) >= Len(pre) /\ SubSeq(s, 1, Len(pre)) = pre
\* &s[n..]
From(s, n) == SubSeq(s, n + 1, Len(s))

\* The Arg constructors: Arg::param, Arg::flag, Arg::input, Arg::output.
ArgParam(scope, flag, value, spaced) ==
    [type |-> "Param", tag |-> scope, flag |-> flag, value |-> value, spaced |-> spaced]
ArgFlag(scope, flag) ==
    [type |-> "Flag", tag |-> scope, flag |-> flag, value |-> <<>>, spaced |-> FALSE]
ArgInput(kind, flag, file) ==
    [type |-> "Input", tag |-> kind, flag |-> flag, value |-> file, spaced |-> FALSE]
ArgOutput(kind, flag, file) ==
    [type |-> "Output", tag |-> kind, flag |-> flag, value |-> file, spaced |-> FALSE]

\* arg.starts_with('/') || arg.starts_with('-')
has_param_prefix(arg) == StartsWith(arg, <<"/">>) \/ StartsWith(arg, <<"-">>)

\* The prefixes of is_spaceable_param, in the order of its three loops.
SpaceableTable ==
    <<
      [prefix |-> <<"D">>, scope |-> "Shared"],
      [prefix |-> <<"I">>, scope |-> "Preprocessor"],
      [prefix |-> <<"s", "o", "u", "r", "c", "e", "D", "e", "p", "e", "n", "d", "e", "n", "c", "i", "e", "s">>, scope |-> "Preprocessor"],
      [prefix |-> <<"W">>, scope |-> "Compiler"],
      [prefix |-> <<"w", "d">>, scope |-> "Compiler"],
      [prefix |-> <<"w", "e">>, scope |-> "Compiler"],
      [prefix |-> <<"w", "o">>, scope |-> "Compiler"],
      [prefix |-> <<"w">>, scope |-> "Compiler"]
    >>

\* is_spaceable_param: the first prefix the flag starts with, or none (0).
RECURSIVE FirstSpaceable(_, _)
FirstSpaceable(flag, i) ==
    IF i > Len(SpaceableTable) THEN 0
    ELSE IF StartsWith(flag, SpaceableTable[i].prefix) THEN i
    ELSE FirstSpaceable(flag, i + 1)
is_spaceable_param(flag) == FirstSpaceable(flag, 1)

\* The arms of parse_argument's match on a flag that is not spaceable, in
\* order: the flag itself (how = "exact") or what it starts with ("prefix").
FlagRules ==
    <<
      [how |-> "exact", pat |-> <<"c">>, make |-> "flag", tag |-> "Ignore"],
      [how |-> "exact", pat |-> <<"n", "o", "l", "o", "g", "o">>, make |-> "flag", tag |-> "Ignore"],
      [how |-> "exact", pat |-> <<"b", "i", "g", "o", "b", "j">>, make |-> "flag", tag |-> "Compiler"],
      [how |-> "exact", pat |-> <<"F", "C">>, make |-> "flag", tag |-> "Shared"],
      [how |-> "exact", pat |-> <<"d", "2", "v", "z", "e", "r", "o", "u", "p", "p", "e", "r">>, make |-> "flag", tag |-> "Shared"],
      [how |-> "exact", pat |-> <<"f", "a", "s", "t", "f", "a", "i", "l">>, make |-> "flag", tag |-> "Shared"],
      [how |-> "exact", pat |-> <<"X">>, make |-> "flag", tag |-> "Preprocessor"],
      [how |-> "prefix", pat |-> <<"T">>, make |-> "T", tag |-> "Ignore"],
      [how |-> "prefix", pat |-> <<"O">>, make |-> "flag", tag |-> "Shared"],
      [how |-> "prefix", pat |-> <<"G">>, make |-> "flag", tag |-> "Shared"],
      [how |-> "prefix", pat |-> <<"R", "T", "C">>, make |-> "flag", tag |-> "Shared"],
      [how |-> "prefix", pat |-> <<"Z">>, make |-> "flag", tag |-> "Shared"],
      [how |-> "prefix", pat |-> <<"d", "2", "Z", "i", "+">>, make |-> "flag", tag |-> "Shared"],
      [how |-> "prefix", pat |-> <<"s", "t", "d", ":">>, make |-> "flag", tag |-> "Shared"],
      [how |-> "prefix", pat |-> <<"M", "P">>, make |-> "flag", tag |-> "Compiler"],
      [how |-> "prefix", pat |-> <<"f", "s", "a", "n", "i", "t", "i", "z", "e", "=">>, make |-> "flag", tag |-> "Shared"],
      [how |-> "prefix", pat |-> <<"M", "D">>, make |-> "flag", tag |-> "Shared"],
      [how |-> "prefix", pat |-> <<"M", "T">>, make |-> "flag", tag |-> "Shared"],
      [how |-> "prefix", pat |-> <<"E", "H">>, make |-> "flag", tag |-> "Shared"],
      [how |-> "prefix", pat |-> <<"f", "p", ":">>, make |-> "flag", tag |-> "Shared"],
      [how |-> "prefix", pat |-> <<"a", "r", "c", "h", ":">>, make |-> "flag", tag |-> "Shared"],
      [how |-> "prefix", pat |-> <<"e", "r", "r", "o", "r", "R", "e", "p", "o", "r", "t", ":">>, make |-> "flag", tag |-> "Shared"],
      [how |-> "prefix", pat |-> <<"s", "o", "u", "r", "c", "e", "-", "c", "h", "a", "r", "s", "e", "t", ":">>, make |-> "flag", tag |-> "Shared"],
      [how |-> "prefix", pat |-> <<"e", "x", "e", "c", "u", "t", "i", "o", "n", "-", "c", "h", "a", "r", "s", "e", "t", ":">>, make |-> "flag", tag |-> "Shared"],
      [how |-> "prefix", pat |-> <<"f", "a", "v", "o", "r", ":">>, make |-> "flag", tag |-> "Shared"],
      [how |-> "prefix", pat |-> <<"F", "o">>, make |-> "Fo", tag |-> "Object"],
      [how |-> "prefix", pat |-> <<"F", "p">>, make |-> "Fp", tag |-> "Precompiled"],
      [how |-> "prefix", pat |-> <<"Y", "c">>, make |-> "Yc", tag |-> "Marker"],
      [how |-> "prefix", pat |-> <<"Y", "u">>, make |-> "Yu", tag |-> "Marker"],
      [how |-> "prefix", pat |-> <<"Y", "l">>, make |-> "flag", tag |-> "Shared"],
      [how |-> "prefix", pat |-> <<"F", "I">>, make |-> "FI", tag |-> "Preprocessor"],
      [how |-> "prefix", pat |-> <<"a", "n", "a", "l", "y", "z", "e">>, make |-> "flag", tag |-> "Shared"]
    >>

RuleMatches(r, flag) ==
    IF r.how = "exact" THEN flag = r.pat ELSE StartsWith(flag, r.pat)

\* The first arm that matches, or none (0): the arm _ => Err.
RECURSIVE FirstRule(_, _)
FirstRule(flag, i) ==
    IF i > Len(FlagRules) THEN 0
    ELSE IF RuleMatches(FlagRules[i], flag) THEN i
    ELSE FirstRule(flag, i + 1)

\* What the arm makes of the flag.
MakeArg(r, flag) ==
    CASE r.make = "flag" -> ArgFlag(r.tag, flag)
      [] r.make = "T" -> ArgParam(r.tag, r.pat, From(flag, 1), FALSE)
      [] r.make = "FI" -> ArgParam(r.tag, r.pat, From(flag, 2), FALSE)
      [] r.make = "Fo" -> ArgOutput(r.tag, r.pat, From(flag, 2))
      [] r.make = "Yc" -> ArgOutput(r.tag, r.pat, From(flag, 2))
      [] r.make = "Fp" -> ArgInput(r.tag, r.pat, From(flag, 2))
      [] r.make = "Yu" -> ArgInput(r.tag, r.pat, From(flag, 2))

\* if flag == prefix: the value of a spaceable flag is the next token.
IsBare_Never(flag, prefix) == FALSE
IsBare(flag, prefix) == flag = prefix

\* parse_argument on the tokens av of which the iterator has yielded n (there
\* is a next one): [ok, arg, err, next], next being the tokens yielded after it.
parse_argument(av, n) ==
    LET arg == av[n + 1]
        flag == From(arg, 1)
        sp == is_spaceable_param(flag)
        rule == FirstRule(flag, 1)
        Ok(a, k) == [ok |-> TRUE, arg |-> a, err |-> <<>>, next |-> k]
        Err(e, k) == [ok |-> FALSE, arg |-> ArgFlag("Ignore", <<>>), err |-> e, next |-> k]
    IN IF has_param_prefix(arg)
       THEN IF sp # 0
            THEN LET prefix == SpaceableTable[sp].prefix
                     scope == SpaceableTable[sp].scope
                 IN IF IsBare(flag, prefix)
                    THEN IF n + 2 <= Len(av)
                         THEN IF has_param_prefix(av[n + 2])
                              THEN Err(arg, n + 2)
                              ELSE Ok(ArgParam(scope, prefix, av[n + 2], TRUE), n + 2)
                         ELSE Err(arg, n + 1)
                    ELSE Ok(ArgParam(scope, prefix, From(flag, Len(prefix)), FALSE), n + 1)
            ELSE IF rule # 0
                 THEN Ok(MakeArg(FlagRules[rule], flag), n + 1)
                 ELSE Err(arg, n + 1)
       ELSE Ok(ArgInput("Source", <<>>, arg), n + 1)

\* The command line of test_parse_argument.
Fixture ==
    <<
      <<"/", "T", "P">>,
      <<"/", "c">>,
      <<"/", "Y", "u", "s", "a", "m", "p", "l", "e", ".", "h">>,
      <<"/", "F", "p", "s", "a", "m", "p", "l", "e", ".", "h", ".", "p", "c", "h">>,
      <<"/", "F", "o", "s", "a", "m", "p", "l", "e", ".", "c", "p", "p", ".", "o">>,
      <<"/", "D", "T", "E", "S", "T">>,
      <<"/", "D">>,
      <<"T", "E", "S", "T", "2">>,
      <<"/", "a", "r", "c", "h", ":", "A", "V", "X">>,
      <<"/", "f", "s", "a", "n", "i", "t", "i", "z", "e", "=", "a", "d", "d", "r", "e", "s", "s">>,
      <<"s", "a", "m", "p", "l", "e", ".", "c", "p", "p">>
    >>

\* The tokens the other command lines are made of.
Tokens ==
    {
      <<"/", "T", "P">>,
      <<"/", "c">>,
      <<"/", "D", "T", "E", "S", "T">>,
      <<"/", "D">>,
      <<"T", "E", "S", "T", "2">>,
      <<"-", "I">>,
      <<"/", "w", "d", "4", "1", "0", "0">>,
      <<"/", "Q", "x">>,
      <<"/", "Y", "u", "s", "a", "m", "p", "l", "e", ".", "h">>,
      <<"s", "a", "m", "p", "l", "e", ".", "c", "p", "p">>
    }
RECURSIVE Lines(_)
Lines(n) ==
    IF n = 0 THEN {<<>>}
    ELSE LET shorter == Lines(n - 1)
         IN shorter \cup {Append(l, tok) : l \in {x \in shorter : Len(x) = n - 1}, tok \in Tokens}
\* A command line with a flag MSVC does not have.
ZqbogusLine == <<<<"/", "Z", "q", "b", "o", "g", "u", "s">>, <<"s", "a", "m", "p", "l", "e", ".", "c", "p", "p">>>>
ArgvSet == Lines(MaxArgs) \cup {Fixture, ZqbogusLine}

\* parse_arguments is called on a command line.
InitParse ==
    /\ InitCache(0, 0)
    /\ HashOff
    /\ TasksOff
    /\ SvcOff
    /\ argv \in ArgvSet
    /\ iter = 0
    /\ result = <<>>
    /\ errors = <<>>
    /\ ppc = "parse"
    /\ ret = "none"

\* One turn of the loop of parse_arguments: parse_argument takes the next
\* token (and the value after it), and its Arg or its error is pushed.
ParseArgument ==
    /\ ppc = "parse"
    /\ iter < Len(argv)
    /\ LET r == parse_argument(argv, iter)
       IN /\ iter' = r.next
          /\ result' = IF r.ok THEN Append(result, r.arg) ELSE result
          /\ errors' = IF r.ok THEN errors ELSE Append(errors, r.err)
    /\ UNCHANGED <<argv, ppc, ret, beyondParse>>

\* The iterator is exhausted: parse_arguments returns the Args, or the error
\* that lists the unknown arguments.
ParseEnd ==
    /\ ppc = "parse"
    /\ iter >= Len(argv)
    /\ ppc' = "done"
    /\ ret' = IF errors # <<>> THEN "err" ELSE "ok"
    /\ UNCHANGED <<argv, iter, result, errors, beyondParse>>

NextParse == ParseArgument \/ ParseEnd
SpecParse == InitParse /\ [][NextParse]_vars

(***************************************************************************)
(* The claims about the parser.                                            *)
(***************************************************************************)
\* The ten Args test_parse_argument expects.
FixtureArgs ==
    <<
      ArgParam("Ignore", <<"T">>, <<"P">>, FALSE),
      ArgFlag("Ignore", <<"c">>),
      ArgInput("Marker", <<"Y", "u">>, <<"s", "a", "m", "p", "l", "e", ".", "h">>),
      ArgInput("Precompiled", <<"F", "p">>, <<"s", "a", "m", "p", "l", "e", ".", "h", ".", "p", "c", "h">>),
      ArgOutput("Object", <<"F", "o">>, <<"s", "a", "m", "p", "l", "e", ".", "c", "p", "p", ".", "o">>),
      ArgParam("Shared", <<"D">>, <<"T", "E", "S", "T">>, FALSE),
      ArgParam("Shared", <<"D">>, <<"T", "E", "S", "T", "2">>, TRUE),
      ArgFlag("Shared", <<"a", "r", "c", "h", ":", "A", "V", "X">>),
      ArgFlag("Shared", <<"f", "s", "a", "n", "i", "t", "i", "z", "e", "=", "a", "d", "d", "r", "e", "s", "s">>),
      ArgInput("Source", <<>>, <<"s", "a", "m", "p", "l", "e", ".", "c", "p", "p">>)
    >>

\* The number of tokens an Arg was parsed from.
GroupSize(a) == IF a.type = "Param" /\ a.spaced THEN 2 ELSE 1
RECURSIVE GroupStart(_, _)
GroupStart(as, j) == IF j = 1 THEN 0 ELSE GroupStart(as, j - 1) + GroupSize(as[j - 1])

\* The token an Arg was parsed from, its '/' or '-' apart.
Text(a) == IF GroupSize(a) = 2 THEN a.flag ELSE a.flag \o a.value
Stripped(tok) == IF has_param_prefix(tok) THEN From(tok, 1) ELSE tok

\* C10: parse_arguments returns the ten Args of the fixture for the fixture's
\* command line; and whenever it returns Ok, the Args are, in the order of the
\* command line, one per token, or one per bare spaceable flag and its value.
C10_ParseFixture ==
    ppc = "done" =>
        /\ argv = Fixture => ret = "ok" /\ result = FixtureArgs
        /\ ret = "ok" =>
              /\ GroupStart(result, Len(result) + 1) = Len(argv)
              /\ \A j \in 1..Len(result) :
                    LET g == GroupStart(result, j)
                    IN /\ Stripped(argv[g + 1]) = Text(result[j])
                       /\ GroupSize(result[j]) = 2 => argv[g + 2] = result[j].value
C10_Witness == ppc = "done" /\ argv = Fixture /\ Len(result) = 10

\* A token that parse_argument, given it, reports as unknown whatever follows.
Unrecognized(tok) ==
    /\ has_param_prefix(tok)
    /\ is_spaceable_param(From(tok, 1)) = 0
    /\ FirstRule(From(tok, 1), 1) = 0
Reported(tok) == \E k \in 1..Len(errors) : errors[k] = tok

\* C11: parse_arguments consumes the whole command line, and every token of
\* it that is not a known flag makes the parse fail and is listed in the
\* error; none is dropped or taken as another flag's value.
C11_UnknownAllReported ==
    ppc = "done" =>
        /\ iter = Len(argv)
        /\ \A i \in 1..Len(argv) :
              Unrecognized(argv[i]) => ret = "err" /\ Reported(argv[i])

\* C12: the command line /Zqbogus sample.cpp fails to parse, and the error
\* lists /Zqbogus.
C12_ZqbogusRejected ==
    ppc = "done" /\ argv = ZqbogusLine => ret = "err" /\ Reported(ZqbogusLine[1])

\* A token that is exactly a spaceable flag, and has no value after it.
BareSpaceable(tok) ==
    /\ has_param_prefix(tok)
    /\ \E k \in 1..Len(SpaceableTable) : From(tok, 1) = SpaceableTable[k].prefix
NoValue(av, i) == IF i = Len(av) THEN TRUE ELSE has_param_prefix(av[i + 1])

\* C13: every bare spaceable flag of the command line that is its last token
\* or is followed by a token that begins with / or - is reported as unknown,
\* the parse fails, and no Param has a flag-looking value.
C13_BareSpaceableIsError ==
    ppc = "done" =>
        /\ \A i \in 1..Len(argv) :
              BareSpaceable(argv[i]) /\ NoValue(argv, i) => ret = "err" /\ Reported(argv[i])
        /\ \A j \in 1..Len(result) :
              result[j].type = "Param" /\ result[j].spaced => ~has_param_prefix(result[j].value)

(***************************************************************************)
(* create_tasks (src/vs/prepare.rs).  A path is the string it was made     *)
(* from; an Option is a sequence of no element (None) or one (Some).       *)
(***************************************************************************)
\* Longest command line given to create_tasks, the listed ones apart.
MaxTaskArgs == 3

Seps == {"/", "\\"}
UpperCase == <<"A", "B", "C", "D", "E", "F", "G", "H", "I", "J", "K", "L", "M", "N", "O", "P", "Q", "R", "S", "T", "U", "V", "W", "X", "Y", "Z">>
LowerCase == <<"a", "b", "c", "d", "e", "f", "g", "h", "i", "j", "k", "l", "m", "n", "o", "p", "q", "r", "s", "t", "u", "v", "w", "x", "y", "z">>
ToLower(ch) ==
    IF \E i \in 1..Len(UpperCase) : UpperCase[i] = ch
    THEN LowerCase[CHOOSE i \in 1..Len(UpperCase) : UpperCase[i] = ch]
    ELSE ch
\* a.eq_ignore_ascii_case(b)
eq_ignore_ascii_case(a, b) ==
    Len(a) = Len(b) /\ \A i \in 1..Len(a) : ToLower(a[i]) = ToLower(b[i])

\* The last index of s that holds a character of set, or 0.
RECURSIVE LastIn(_, _, _)
LastIn(s, set, i) ==
    IF i = 0 THEN 0 ELSE IF s[i] \in set THEN i ELSE LastIn(s, set, i - 1)
\* The path without the separators at its end.
RECURSIVE Trim(_)
Trim(p) ==
    IF p # <<>> /\ p[Len(p)] \in Seps THEN Trim(SubSeq(p, 1, Len(p) - 1)) ELSE p

\* Path::is_absolute: a drive, a colon and a separator begin the path.
is_absolute(p) == Len(p) >= 3 /\ p[2] = ":" /\ p[3] \in Seps
\* Path::file_name: the last component, none for an empty path and for "..".
file_name(p) ==
    LET q == Trim(p)
        n == From(q, LastIn(q, Seps, Len(q)))
    IN IF n = <<>> \/ n = <<".", ".">> \/ n[Len(n)] = ":" THEN <<>> ELSE <<n>>
\* Where the extension of a file name begins: its last dot, when the name
\* does not begin with it; 0 when it has no extension.
ExtDot(n) == LET d == LastIn(n, {"."}, Len(n)) IN IF d <= 1 THEN 0 ELSE d
\* Path::extension
extension(p) ==
    IF file_name(p) = <<>> THEN <<>>
    ELSE LET n == file_name(p)[1]
         IN IF ExtDot(n) = 0 THEN <<>> ELSE <<From(n, ExtDot(n))>>
with_extension_Appended(p, ext) == p \o <<".">> \o ext
\* Path::with_extension: the path cut after its file stem, then "." and ext.
with_extension(p, ext) ==
    IF file_name(p) = <<>> THEN p
    ELSE LET q == Trim(p)
             n == file_name(p)[1]
             stem == IF ExtDot(n) = 0 THEN n ELSE SubSeq(n, 1, ExtDot(n) - 1)
         IN SubSeq(q, 1, Len(q) - Len(n)) \o stem \o (IF ext = <<>> THEN <<>> ELSE <<".">> \o ext)
\* Path::join
join(base, p) ==
    IF is_absolute(p) THEN p
    ELSE IF base = <<>> \/ base[Len(base)] \in Seps THEN base \o p
    ELSE base \o <<"\\">> \o p

\* command.current_dir
current_dir == <<"C", ":", "\\", "w">>
\* command.absolutize(path): the path against the working directory.
absolutize(p) == join(current_dir, p)
\* path.is_dir()
is_dir(p) == Trim(p) \in dirs

\* find_param(args, filter), given what the filter makes of each Arg: the
\* matches; none is ParamValue::None, one is ParamValue::Single, more are
\* ParamValue::Many.
find_param(filtered) ==
    LET IsSome(o) == o # <<>>
        found == SelectSeq(filtered, IsSome)
    IN [i \in 1..Len(found) |-> found[i][1]]

\* The filters of create_tasks.
SourceFile(a) == IF a.type = "Input" /\ a.tag = "Source" THEN <<a.value>> ELSE <<>>
PrecompiledFile(a) == IF a.type = "Input" /\ a.tag = "Precompiled" THEN <<a.value>> ELSE <<>>
PchMarker_InputOnly(a) ==
    IF a.type = "Input" /\ a.tag = "Marker" THEN <<[input |-> TRUE, path |-> a.value]>> ELSE <<>>
PchMarker(a) ==
    IF a.type = "Input" /\ a.tag = "Marker" THEN <<[input |-> TRUE, path |-> a.value]>>
    ELSE IF a.type = "Output" /\ a.tag = "Marker" THEN <<[input |-> FALSE, path |-> a.value]>>
    ELSE <<>>
ObjectFile(a) == IF a.type = "Output" /\ a.tag = "Object" THEN <<a.value>> ELSE <<>>
LanguageParam(a) == IF a.type = "Param" /\ a.flag = <<"T">> THEN <<a.value>> ELSE <<>>

\* detect_language
detect_language(p) ==
    IF extension(p) = <<>> THEN <<>>
    ELSE LET ext == extension(p)[1]
         IN IF eq_ignore_ascii_case(ext, <<"c", "p", "p">>) \/ eq_ignore_ascii_case(ext, <<"c", "c">>)
            THEN <<<<"P">>>>
            ELSE IF eq_ignore_ascii_case(ext, <<"c">>) THEN <<<<"C">>>>
            ELSE <<>>

\* get_output_object: [ok, path], or a panic of one of its asserts.
get_output_object_Default(input_source, out) ==
    [ok |-> TRUE, panic |-> FALSE, path |-> input_source]
get_output_object(input_source, out) ==
    IF out = <<>>
    THEN IF ~is_absolute(input_source)
         THEN [ok |-> FALSE, panic |-> TRUE, path |-> <<>>]
         ELSE [ok |-> TRUE, panic |-> FALSE, path |-> with_extension(input_source, <<"o", "b", "j">>)]
    ELSE LET path0 == out[1]
         IN IF ~is_absolute(path0)
            THEN [ok |-> FALSE, panic |-> TRUE, path |-> <<>>]
            ELSE IF is_dir(path0)
            THEN IF file_name(input_source) = <<>>
                 THEN [ok |-> FALSE, panic |-> FALSE, path |-> <<>>]
                 ELSE [ok |-> TRUE, panic |-> FALSE,
                       path |-> with_extension(join(path0, file_name(input_source)[1]), <<"o", "b", "j">>)]
            ELSE [ok |-> TRUE, panic |-> FALSE, path |-> path0]

\* The tokens of the command lines given to create_tasks.
TaskTokens ==
    {
      <<"s", "a", "m", "p", "l", "e", ".", "c", "p", "p">>,
      <<"a", ".", "c">>,
      <<"x", ".", "t", "x", "t">>,
      <<"/", "Y", "u", "s", "a", "m", "p", "l", "e", ".", "h">>,
      <<"/", "Y", "c", "s", "a", "m", "p", "l", "e", ".", "h">>,
      <<"/", "F", "p", "s", "a", "m", "p", "l", "e", ".", "h", ".", "p", "c", "h">>,
      <<"/", "F", "o", "s", "a", "m", "p", "l", "e", ".", "c", "p", "p", ".", "o">>,
      <<"/", "F", "o", "o", "u", "t">>,
      <<"/", "T", "P">>,
      <<"/", "T", "X">>
    }
RECURSIVE TaskLines(_)
TaskLines(n) ==
    IF n = 0 THEN {<<>>}
    ELSE LET shorter == TaskLines(n - 1)
         IN shorter \cup {Append(l, tok) : l \in {x \in shorter : Len(x) = n - 1}, tok \in TaskTokens}
\* The command lines of the specification's examples, and some others.
ListedLines ==
    {
      <<<<"/", "Y", "u", "s", "a", "m", "p", "l", "e", ".", "h">>, <<"/", "c">>, <<"s", "a", "m", "p", "l", "e", ".", "c", "p", "p">>>>,
      <<<<"/", "Y", "c", "s", "a", "m", "p", "l", "e", ".", "h">>, <<"/", "F", "p", "s", "a", "m", "p", "l", "e", ".", "h", ".", "p", "c", "h">>, <<"/", "c">>, <<"s", "a", "m", "p", "l", "e", ".", "c", "p", "p">>>>,
      <<<<"/", "T", "P">>, <<"/", "c">>, <<"/", "F", "o", "s", "a", "m", "p", "l", "e", ".", "c", "p", "p", ".", "o">>, <<"s", "a", "m", "p", "l", "e", ".", "c", "p", "p">>>>,
      <<<<"B", ".", "C", "P", "P">>>>,
      <<<<"/", "Q", "x">>, <<"s", "a", "m", "p", "l", "e", ".", "c", "p", "p">>>>
    }
TaskArgvSet == TaskLines(MaxTaskArgs) \cup ListedLines
\* What may be a directory: nothing, or out in the working directory.
DirSets == {{}, {absolutize(<<"o", "u", "t">>)}}

\* create_tasks is called on a command line (args after expand_response_files).
InitTasks ==
    /\ InitCache(0, 0)
    /\ HashOff
    /\ SvcOff
    /\ argv \in TaskArgvSet
    /\ iter = 0
    /\ result = <<>>
    /\ errors = <<>>
    /\ ppc = "parse"
    /\ ret = "none"
    /\ dirs \in DirSets
    /\ tpc = "parse"
    /\ input_sources = <<>>
    /\ precompiled_file = <<>>
    /\ pch_usage = NoUsage
    /\ output_object = <<>>
    /\ language = <<>>
    /\ tasks = <<>>
    /\ tret = "none"

\* An early return of create_tasks with an error.
Fail ==
    /\ tpc' = "done"
    /\ tret' = "err"

\* parse_arguments(...)? returned an error.
ParseFailed ==
    /\ tpc = "parse" /\ ppc = "done" /\ ret = "err"
    /\ Fail
    /\ UNCHANGED <<dirs, input_sources, precompiled_file, pch_usage, output_object,
                   language, tasks, parseVars, cacheVars, svcVars, hashVars>>

\* The source files, absolutized; an error when there is none.
Sources ==
    /\ tpc = "parse" /\ ppc = "done" /\ ret = "ok"
    /\ LET found == find_param([i \in 1..Len(result) |-> SourceFile(result[i])])
       IN /\ input_sources' = [i \in 1..Len(found) |-> absolutize(found[i])]
          /\ IF found = <<>> THEN Fail ELSE tpc' = "precompiled" /\ tret' = tret
    /\ UNCHANGED <<dirs, precompiled_file, pch_usage, output_object, language, tasks,
                   parseVars, cacheVars, svcVars, hashVars>>

\* precompiled_file: the /Fp file.
Precompiled ==
    /\ tpc = "precompiled"
    /\ LET found == find_param([i \in 1..Len(result) |-> PrecompiledFile(result[i])])
       IN IF Len(found) > 1
          THEN Fail /\ precompiled_file' = precompiled_file
          ELSE tpc' = "marker" /\ tret' = tret /\ precompiled_file' = found
    /\ UNCHANGED <<dirs, input_sources, pch_usage, output_object, language, tasks,
                   parseVars, cacheVars, svcVars, hashVars>>

\* pch_usage, from the marker (/Yu or /Yc) and precompiled_file.
PchArgs(kind, marker) ==
    LET precompiled_path ==
            IF precompiled_file # <<>> THEN precompiled_file[1]
            ELSE with_extension(marker, <<"p", "c", "h">>)
    IN [kind |-> kind, path |-> precompiled_path, path_abs |-> absolutize(precompiled_path),
        marker |-> IF marker = <<>> THEN <<>> ELSE <<marker>>]
Marker ==
    /\ tpc = "marker"
    /\ LET found == find_param([i \in 1..Len(result) |-> PchMarker(result[i])])
       IN IF Len(found) > 1
          THEN Fail /\ pch_usage' = pch_usage
          ELSE /\ tpc' = "output" /\ tret' = tret
               /\ pch_usage' = IF found = <<>> THEN NoUsage
                               ELSE PchArgs(IF found[1].input THEN "In" ELSE "Out", found[1].path)
    /\ UNCHANGED <<dirs, input_sources, precompiled_file, output_object, language, tasks,
                   parseVars, cacheVars, svcVars, hashVars>>

\* output_object: the /Fo file, absolutized.
Output ==
    /\ tpc = "output"
    /\ LET found == find_param([i \in 1..Len(result) |-> ObjectFile(result[i])])
       IN IF Len(found) > 1
          THEN Fail /\ output_object' = output_object
          ELSE /\ tpc' = "language" /\ tret' = tret
               /\ output_object' = IF found = <<>> THEN <<>> ELSE <<absolutize(found[1])>>
    /\ UNCHANGED <<dirs, input_sources, precompiled_file, pch_usage, language, tasks,
                   parseVars, cacheVars, svcVars, hashVars>>

\* language: the value of /T.
Language ==
    /\ tpc = "language"
    /\ LET found == find_param([i \in 1..Len(result) |-> LanguageParam(result[i])])
       IN IF Len(found) > 1
          THEN Fail /\ language' = language
          ELSE tpc' = "tasks" /\ tret' = tret /\ language' = found
    /\ UNCHANGED <<dirs, input_sources, precompiled_file, pch_usage, output_object, tasks,
                   parseVars, cacheVars, svcVars, hashVars>>

\* The language of the task of a source: Some(language), or none.
TaskLanguage(input_source) ==
    IF language # <<>> THEN language ELSE detect_language(input_source)
\* One task per source; collect() gives the tasks, or the first error.
Tasks ==
    /\ tpc = "tasks"
    /\ LET n == Len(input_sources)
           out(i) == get_output_object(input_sources[i], output_object)
           good(i) == TaskLanguage(input_sources[i]) # <<>> /\ out(i).ok
           \* the closure runs until the first source that gives an error
           ran(i) == \A j \in 1..(i - 1) : good(j)
       IN /\ tpc' = "done"
          /\ IF \E i \in 1..n : ran(i) /\ TaskLanguage(input_sources[i]) # <<>> /\ out(i).panic
             THEN tret' = "panic" /\ tasks' = tasks
             ELSE IF \A i \in 1..n : good(i)
             THEN /\ tret' = "ok"
                  /\ tasks' = [i \in 1..n |->
                                 [input_source |-> input_sources[i],
                                  language |-> TaskLanguage(input_sources[i])[1],
                                  output_object |-> out(i).path]]
             ELSE tret' = "err" /\ tasks' = tasks
    /\ UNCHANGED <<dirs, input_sources, precompiled_file, pch_usage, output_object, language,
                   parseVars, cacheVars, svcVars, hashVars>>

NextTasks ==
    \/ ParseArgument
    \/ ParseEnd
    \/ ParseFailed
    \/ Sources
    \/ Precompiled
    \/ Marker
    \/ Output
    \/ Language
    \/ Tasks
SpecTasks == InitTasks /\ [][NextTasks]_vars

(***************************************************************************)
(* The claims about create_tasks.                                          *)
(***************************************************************************)
\* The flags of the command line that begin with one of the prefixes, their
\* / or - apart, and its tokens that are no flags, in order.
FlagsOf(av, prefixes) ==
    LET Is(tok) == has_param_prefix(tok) /\ \E pre \in prefixes : StartsWith(From(tok, 1), pre)
    IN SelectSeq(av, Is)
PlainOf(av) == LET Is(tok) == ~has_param_prefix(tok) IN SelectSeq(av, Is)
Yu == <<"Y", "u">>
Yc == <<"Y", "c">>
Fp == <<"F", "p">>
Fo == <<"F", "o">>
\* What follows the two characters of the flag.
Value(tok) == From(tok, 3)

\* C14: create_tasks fails, and returns no task, when the command line has
\* more than one PCH marker (/Yc, /Yu), more than one /Fp, more than one /Fo,
\* more than one /T, or no source file.
C14_SingularParams ==
    tpc = "done" /\
      ( \/ Len(FlagsOf(argv, {Yu, Yc})) > 1
        \/ Len(FlagsOf(argv, {Fp})) > 1
        \/ Len(FlagsOf(argv, {Fo})) > 1
        \/ Len(FlagsOf(argv, {<<"T">>})) > 1
        \/ PlainOf(argv) = <<>> )
    => tret = "err" /\ tasks = <<>>
C14_Witness ==
    /\ tpc = "done" /\ ret = "ok" /\ tret = "err"
    /\ Len(FlagsOf(argv, {Yu})) = 1 /\ Len(FlagsOf(argv, {Yc})) = 1
    /\ PlainOf(argv) # <<>>

\* The marker step of create_tasks has been passed.
UsageKnown == tpc \in {"output", "language", "tasks"} \/ (tpc = "done" /\ tret = "ok")
\* C15: without a marker the PCH usage is None; with one /Yu<stem> it is In,
\* with one /Yc<stem> it is Out, the marker is the stem, and the path is the
\* /Fp path when there is one, else the stem with its extension replaced by
\* pch: /Yusample.h gives In, sample.pch, sample.h, and /Ycsample.h
\* /Fpsample.h.pch gives Out, sample.h.pch, sample.h.
C15_PchUsage ==
    UsageKnown =>
      LET markers == FlagsOf(argv, {Yu, Yc})
          fps == FlagsOf(argv, {Fp})
          stem == Value(markers[1])
      IN /\ markers = <<>> => pch_usage.kind = "None"
         /\ Len(markers) = 1 /\ stem # <<>> =>
              /\ pch_usage.kind = IF StartsWith(From(markers[1], 1), Yu) THEN "In" ELSE "Out"
              /\ pch_usage.marker = <<stem>>
              /\ pch_usage.path = IF fps # <<>> THEN Value(fps[1]) ELSE with_extension(stem, <<"p", "c", "h">>)
         /\ argv = <<<<"/", "Y", "u", "s", "a", "m", "p", "l", "e", ".", "h">>, <<"/", "c">>, <<"s", "a", "m", "p", "l", "e", ".", "c", "p", "p">>>> =>
              /\ pch_usage.kind = "In"
              /\ pch_usage.path = <<"s", "a", "m", "p", "l", "e", ".", "p", "c", "h">>
              /\ pch_usage.marker = <<<<"s", "a", "m", "p", "l", "e", ".", "h">>>>
         /\ argv = <<<<"/", "Y", "c", "s", "a", "m", "p", "l", "e", ".", "h">>, <<"/", "F", "p", "s", "a", "m", "p", "l", "e", ".", "h", ".", "p", "c", "h">>, <<"/", "c">>, <<"s", "a", "m", "p", "l", "e", ".", "c", "p", "p">>>> =>
              /\ pch_usage.kind = "Out"
              /\ pch_usage.path = <<"s", "a", "m", "p", "l", "e", ".", "h", ".", "p", "c", "h">>
              /\ pch_usage.marker = <<<<"s", "a", "m", "p", "l", "e", ".", "h">>>>
C15_Witness ==
    /\ tpc = "done" /\ tret = "ok"
    /\ argv = <<<<"/", "Y", "u", "s", "a", "m", "p", "l", "e", ".", "h">>, <<"/", "c">>, <<"s", "a", "m", "p", "l", "e", ".", "c", "p", "p">>>>
    /\ pch_usage.kind = "In"

\* C16: every task returned has language C or P: the value of /T when the
\* command line has one, else C for a .c source and P for a .cpp or .cc
\* source; create_tasks fails when neither applies.
C16_LanguageCP ==
    tpc = "done" =>
      LET ts == FlagsOf(argv, {<<"T">>})
          srcs == PlainOf(argv)
      IN /\ tret = "ok" =>
              \A i \in 1..Len(tasks) :
                  /\ tasks[i].language \in {<<"C">>, <<"P">>}
                  /\ tasks[i].language =
                        IF ts # <<>> THEN From(ts[1], 2) ELSE detect_language(srcs[i])[1]
         /\ ts = <<>> /\ (\E i \in 1..Len(srcs) : detect_language(srcs[i]) = <<>>) =>
              tret = "err"

\* C17: input_source and output_object of every task are absolute; without
\* /Fo the output is the source with its extension replaced by obj; with a
\* /Fo that is a directory it is the source's file name in that directory,
\* with extension obj; else it is the absolutized /Fo path.
C17_OutputObject ==
    tpc = "done" /\ tret = "ok" =>
      LET fos == FlagsOf(argv, {Fo})
          srcs == PlainOf(argv)
      IN /\ Len(tasks) = Len(srcs)
         /\ \A i \in 1..Len(tasks) :
              LET src == tasks[i].input_source
                  out == tasks[i].output_object
              IN /\ src = current_dir \o <<"\\">> \o srcs[i]
                 /\ is_absolute(src) /\ is_absolute(out)
                 /\ fos = <<>> => out = with_extension(src, <<"o", "b", "j">>)
                 /\ fos # <<>> =>
                      LET fo == current_dir \o <<"\\">> \o Value(fos[1])
                      IN out = IF fo \in dirs
                               THEN with_extension(fo \o <<"\\">> \o srcs[i], <<"o", "b", "j">>)
                               ELSE fo
         /\ argv = <<<<"a", ".", "c">>>> => tasks[1].output_object = <<"C", ":", "\\", "w", "\\", "a", ".", "o", "b", "j">>
         /\ argv = <<<<"/", "F", "o", "o", "u", "t">>, <<"a", ".", "c">>>> /\ dirs # {} => tasks[1].output_object = <<"C", ":", "\\", "w", "\\", "o", "u", "t", "\\", "a", ".", "o", "b", "j">>
         /\ argv = <<<<"/", "T", "P">>, <<"/", "c">>, <<"/", "F", "o", "s", "a", "m", "p", "l", "e", ".", "c", "p", "p", ".", "o">>, <<"s", "a", "m", "p", "l", "e", ".", "c", "p", "p">>>> =>
              tasks[1].output_object = <<"C", ":", "\\", "w", "\\", "s", "a", "m", "p", "l", "e", ".", "c", "p", "p", ".", "o">>
C17_Witness ==
    /\ tpc = "done" /\ tret = "ok"
    /\ argv = <<<<"/", "F", "o", "o", "u", "t">>, <<"a", ".", "c">>>> /\ dirs # {}
    /\ Len(tasks) = 1

(***************************************************************************)
(* The daemons (src/bin/octo_builder.rs, src/bin/octo_agent.rs): the main  *)
(* loop that receives the supervisor's signals, and the threads of the     *)
(* service instances it makes.                                             *)
(***************************************************************************)
\* Connections that clients make in one behaviour.
MaxConns == 1

Signals == {"Start", "Reload", "Stop"}
RECURSIVE SignalSeqs(_)
SignalSeqs(n) ==
    IF n = 0 THEN {<<>>}
    ELSE LET shorter == SignalSeqs(n - 1)
         IN shorter \cup {Append(q, sig) : q \in {x \in shorter : Len(x) = n - 1}, sig \in Signals}
\* The toolchains a host may have.
ToolchainSet == {"vs", "clang"}

\* The daemon has started; the supervisor's signals are in the channel.
InitSvc ==
    /\ InitCache(0, 0)
    /\ HashOff
    /\ ParseOff
    /\ TasksOff
    /\ daemon \in {"builder", "agent"}
    /\ rx \in SignalSeqs(MaxSignals)
    /\ mpc = "recv"
    /\ state = "Stopped"
    /\ builder = 0
    /\ dropping = 0
    /\ started = 0
    /\ done = [i \in Services |-> FALSE]
    /\ listener = [i \in Services |-> FALSE]
    /\ accepter = [i \in Services |-> "none"]
    /\ anoncer = [i \in Services |-> "none"]
    /\ toolchains = [i \in Services |-> {}]
    /\ handlers = [i \in Services |-> 0]
    /\ accepted = [i \in Services |-> 0]
    /\ sent = [i \in Services |-> 0]
    /\ installed = {"vs"}
    /\ conns = 0

beyondSvc == <<cacheVars, parseVars, taskVars, hashVars>>
annVars == <<sent>>
threadVars == <<done, listener, accepter, anoncer, toolchains, handlers, accepted>>

\* for signal in rx.iter(): State::Start
RecvStart ==
    /\ mpc = "recv" /\ rx # <<>> /\ Head(rx) = "Start"
    /\ rx' = Tail(rx)
    /\ state' = "Starting"
    /\ mpc' = "new"
    /\ UNCHANGED <<daemon, builder, dropping, started, threadVars, installed, conns, annVars, beyondSvc>>

\* discovery_toolchains(): the builder's toolchains; the agent has none.
discovery_toolchains == IF daemon = "builder" THEN installed ELSE {}

\* BuilderService::new() / AgentService::new(): binds the listener, builds
\* the info, spawns the accepter (on a clone of the listener) and the anoncer.
New ==
    /\ mpc = "new"
    /\ LET i == started + 1
       IN /\ started' = i
          /\ listener' = [listener EXCEPT ![i] = TRUE]
          /\ toolchains' = [toolchains EXCEPT ![i] = discovery_toolchains]
          /\ done' = [done EXCEPT ![i] = FALSE]
          /\ accepter' = [accepter EXCEPT ![i] = "accept"]
          /\ anoncer' = [anoncer EXCEPT ![i] = "check"]
    /\ mpc' = "assign"
    /\ UNCHANGED <<daemon, rx, state, builder, dropping, handlers, accepted, installed, conns,
                   annVars, beyondSvc>>

\* builder = Some(...): the service held before, if any, is dropped.
Assign ==
    /\ mpc = "assign"
    /\ builder' = started
    /\ IF builder # 0
       THEN dropping' = builder /\ mpc' = "drop" /\ state' = state
       ELSE dropping' = dropping /\ mpc' = "recv" /\ state' = "Ready"
    /\ UNCHANGED <<daemon, rx, started, threadVars, installed, conns, annVars, beyondSvc>>

\* State::Reload: a line in the log.
RecvReload ==
    /\ mpc = "recv" /\ rx # <<>> /\ Head(rx) = "Reload"
    /\ rx' = Tail(rx)
    /\ UNCHANGED <<daemon, mpc, state, builder, dropping, started, threadVars, installed, conns,
                   annVars, beyondSvc>>

\* State::Stop
RecvStop ==
    /\ mpc = "recv" /\ rx # <<>> /\ Head(rx) = "Stop"
    /\ rx' = Tail(rx)
    /\ state' = "Stopping"
    /\ mpc' = "take"
    /\ UNCHANGED <<daemon, builder, dropping, started, threadVars, installed, conns, annVars, beyondSvc>>

\* builder.take(): the service, if any, is dropped.
Take ==
    /\ mpc = "take"
    /\ builder' = 0
    /\ IF builder # 0
       THEN dropping' = builder /\ mpc' = "drop" /\ state' = state
       ELSE dropping' = dropping /\ mpc' = "recv" /\ state' = "Stopped"
    /\ UNCHANGED <<daemon, rx, started, threadVars, installed, conns, annVars, beyondSvc>>

\* drop: self.done.store(true)
DropDone ==
    /\ mpc = "drop"
    /\ done' = [done EXCEPT ![dropping] = TRUE]
    /\ mpc' = "drop_listener"
    /\ UNCHANGED <<daemon, rx, state, builder, dropping, started, listener, accepter, anoncer,
                   toolchains, handlers, accepted, installed, conns, annVars, beyondSvc>>

\* drop: self.listener.take()
DropListener ==
    /\ mpc = "drop_listener"
    /\ listener' = [listener EXCEPT ![dropping] = FALSE]
    /\ mpc' = "join_anoncer"
    /\ UNCHANGED <<daemon, rx, state, builder, dropping, started, done, accepter, anoncer,
                   toolchains, handlers, accepted, installed, conns, annVars, beyondSvc>>

\* drop: self.anoncer.take() ... t.join().unwrap()
JoinAnoncer ==
    /\ mpc = "join_anoncer"
    /\ anoncer[dropping] = "exited"
    /\ mpc' = "join_accepter"
    /\ UNCHANGED <<daemon, rx, state, builder, dropping, started, threadVars, installed, conns,
                   annVars, beyondSvc>>

\* drop: self.accepter.take() ... t.join().unwrap(): returns when the thread
\* has ended, and panics when it ended in a panic.
JoinAccepter ==
    /\ mpc = "join_accepter"
    /\ accepter[dropping] \in {"exited", "panicked"}
    /\ IF accepter[dropping] = "panicked"
       THEN mpc' = "panicked" /\ UNCHANGED <<state, dropping>>
       ELSE /\ mpc' = "recv"
            /\ dropping' = 0
            /\ state' = IF state = "Stopping" THEN "Stopped" ELSE "Ready"
    /\ UNCHANGED <<daemon, rx, builder, started, threadVars, installed, conns, annVars, beyondSvc>>

Main ==
    \/ RecvStart
    \/ New
    \/ Assign
    \/ RecvReload
    \/ RecvStop
    \/ Take
    \/ DropDone
    \/ DropListener
    \/ JoinAnoncer
    \/ JoinAccepter

\* thread_anoncer: while !done.load()
AnoncerCheck(i) ==
    /\ anoncer[i] = "check"
    /\ anoncer' = [anoncer EXCEPT ![i] = IF done[i] THEN "exited" ELSE "post"]
    /\ UNCHANGED <<daemon, rx, mpc, state, builder, dropping, started, done, listener, accepter,
                   toolchains, handlers, accepted, installed, conns, annVars, beyondSvc>>
\* What the anoncer does after send(): Err is logged; then it sleeps.
AfterSend_ErrEnds(outcome) == IF outcome = "Err" THEN "exited" ELSE "sleep"
AfterSend(outcome) == IF outcome = "Err" THEN "log" ELSE "sleep"
\* thread_anoncer: client.post(...).send(), which the coordinator answers
\* (Ok) or not (Err)
AnoncerPost(i) ==
    /\ anoncer[i] = "post"
    /\ \E outcome \in {"Ok", "Err"} : anoncer' = [anoncer EXCEPT ![i] = AfterSend(outcome)]
    /\ sent' = [sent EXCEPT ![i] = IF done[i] /\ @ < 2 THEN @ + 1 ELSE @]
    /\ UNCHANGED <<daemon, rx, mpc, state, builder, dropping, started, done, listener, accepter,
                   toolchains, handlers, accepted, installed, conns, beyondSvc>>
\* thread_anoncer: Err(e) => info!("can't send info to coordinator")
AnoncerLog(i) ==
    /\ anoncer[i] = "log"
    /\ anoncer' = [anoncer EXCEPT ![i] = "sleep"]
    /\ UNCHANGED <<daemon, rx, mpc, state, builder, dropping, started, done, listener, accepter,
                   toolchains, handlers, accepted, installed, conns, annVars, beyondSvc>>
\* thread_anoncer: thread::sleep(1 s)
AnoncerSleep(i) ==
    /\ anoncer[i] = "sleep"
    /\ anoncer' = [anoncer EXCEPT ![i] = "check"]
    /\ UNCHANGED <<daemon, rx, mpc, state, builder, dropping, started, done, listener, accepter,
                   toolchains, handlers, accepted, installed, conns, annVars, beyondSvc>>
Anoncer(i) == AnoncerCheck(i) \/ AnoncerPost(i) \/ AnoncerLog(i) \/ AnoncerSleep(i)

\* thread_accepter: a client connects and listener.incoming() (the thread's
\* clone of the listener) yields: a stream, for which a handler thread is
\* spawned (thread::spawn panics when the thread cannot be made), or an error.
Accept(i) ==
    /\ accepter[i] = "accept"
    /\ conns < MaxConns
    /\ conns' = conns + 1
    /\ \E outcome \in {"stream", "error", "nothread"} :
          /\ accepted' = [accepted EXCEPT ![i] = @ + (IF outcome = "error" THEN 0 ELSE 1)]
          /\ handlers' = [handlers EXCEPT ![i] = @ + (IF outcome = "stream" THEN 1 ELSE 0)]
          /\ accepter' = [accepter EXCEPT ![i] = IF outcome = "nothread" THEN "panicked" ELSE @]
    /\ UNCHANGED <<daemon, rx, mpc, state, builder, dropping, started, done, listener, anoncer,
                   toolchains, installed, annVars, beyondSvc>>

\* handle_client: writes its greeting and ends.
Handle(i) ==
    /\ handlers[i] > 0
    /\ handlers' = [handlers EXCEPT ![i] = @ - 1]
    /\ UNCHANGED <<daemon, rx, mpc, state, builder, dropping, started, done, listener, accepter,
                   anoncer, toolchains, accepted, installed, conns, annVars, beyondSvc>>

\* A toolchain is installed on the host.
Install(t) ==
    /\ mpc # "off"
    /\ t \notin installed
    /\ installed' = installed \cup {t}
    /\ UNCHANGED <<daemon, rx, mpc, state, builder, dropping, started, threadVars, conns,
                   annVars, beyondSvc>>

NextSvc ==
    \/ Main
    \/ \E i \in Services : Anoncer(i) \/ Accept(i) \/ Handle(i)
    \/ \E t \in ToolchainSet : Install(t)
\* The main thread and the threads that are not waiting for a client run on.
SpecSvc ==
    /\ InitSvc
    /\ [][NextSvc]_vars
    /\ WF_vars(Main)
    /\ \A i \in Services : WF_vars(Anoncer(i)) /\ WF_vars(Handle(i))

(***************************************************************************)
(* The claims about the daemons.                                           *)
(***************************************************************************)
\* C18: a Stop received while a service exists ends: the drop of the service
\* returns and the main loop reaches Stopped (or a thread's panic ends main).
C18_StopTerminates ==
    (state = "Stopping" /\ mpc = "drop") ~> (state = "Stopped" \/ mpc = "panicked")

\* C19: once the Stop of a service has dropped its listener, no connection is
\* accepted and no handler thread is spawned for it.
C19_NoAcceptAfterStop ==
    [][\A i \in Services :
          state = "Stopping" /\ dropping = i /\ ~listener[i] =>
              accepted'[i] = accepted[i] /\ handlers'[i] <= handlers[i]]_vars

\* C20: a Reload received by the builder in Ready refreshes the toolchains
\* the service announces, and leaves its listener and threads as they are.
C20_ReloadRediscovers ==
    [][mpc = "recv" /\ state = "Ready" /\ daemon = "builder" /\ rx # <<>>
           /\ Head(rx) = "Reload" /\ rx' = Tail(rx) =>
         /\ toolchains'[builder] = installed
         /\ listener' = listener /\ accepter' = accepter /\ anoncer' = anoncer]_vars

\* C21: a service whose done flag is set sends at most one more announcement
\* and its anoncer then exits (done and the exit being for good: again and
\* again, every anoncer whose done is set has exited); an announcement that
\* fails does not end the anoncer, which logs, sleeps and, done still being
\* false, announces again (no anoncer stays at a failed send).
C21_AnnouncerCancellation ==
    /\ [](\A i \in Services : sent[i] <= 1)
    /\ [][\A i \in Services :
             /\ anoncer[i] = "post" /\ anoncer'[i] # "post" => anoncer'[i] \in {"log", "sleep"}
             /\ anoncer[i] = "log" /\ anoncer'[i] # "log" => anoncer'[i] = "sleep"
             /\ anoncer[i] = "sleep" /\ anoncer'[i] # "sleep" => anoncer'[i] = "check"
             /\ anoncer[i] = "check" /\ anoncer'[i] # "check" =>
                   anoncer'[i] = IF done[i] THEN "exited" ELSE "post"]_vars
    /\ []<>(\A i \in Services : done[i] => anoncer[i] = "exited")
    /\ []<>(\A i \in Services : anoncer[i] = "log" => done[i])
C21_Witness ==
    \E i \in Services : done[i] /\ sent[i] = 1 /\ anoncer[i] = "log"

\* The threads of a service that run.
Announcing(i) == anoncer[i] \in {"check", "post", "log", "sleep"}
Accepting(i) == accepter[i] = "accept"
\* C22: whatever signals are sent, no two service instances have their
\* anoncer threads, or their accepter threads, running at the same time.
C22_OneInstance ==
    \A i, j \in Services :
        i # j => ~(Announcing(i) /\ Announcing(j)) /\ ~(Accepting(i) /\ Accepting(j))

\* C23: the tasks create_tasks returns for distinct sources have distinct
\* output objects, also when one /Fo is given with several sources.
C23_DistinctOutputs ==
    tpc = "done" /\ tret = "ok" =>
        \A i, j \in 1..Len(tasks) :
            tasks[i].input_source # tasks[j].input_source =>
                tasks[i].output_object # tasks[j].output_object

(***************************************************************************)
(* generate_hash (src/cache.rs): the bytes two calls feed to the digest.   *)
(***************************************************************************)
\* Most inputs of a call of generate_hash.
MaxInputs == 2
\* params, and the contents of an input file: bytes, zero among them.
HashParams == {<<>>, <<97>>}
HashContents == {<<>>, <<0>>, <<97>>}
RECURSIVE ContentLists(_)
ContentLists(n) ==
    IF n = 0 THEN {<<>>}
    ELSE LET shorter == ContentLists(n - 1)
         IN shorter \cup {Append(l, c) : l \in {x \in shorter : Len(x) = n - 1}, c \in HashContents}
HashArgs == [params : HashParams, contents : ContentLists(MaxInputs)]
HashCalls == {1, 2}

InitHash ==
    /\ InitCache(0, 0)
    /\ ParseOff
    /\ TasksOff
    /\ SvcOff
    /\ hargs \in [HashCalls -> HashArgs]
    /\ hstream = <<>>

\* generate_hash(params, inputs), every input read: the bytes written to hash.
GenerateHash(c) ==
    /\ hargs # <<>>
    /\ c \notin DOMAIN hstream
    /\ hstream' = (c :> HashStream(hargs[c].params, hargs[c].contents)) @@ hstream
    /\ UNCHANGED <<hargs, cacheVars, parseVars, taskVars, svcVars>>

NextHash == \E c \in HashCalls : GenerateHash(c)
SpecHash == InitHash /\ [][NextHash]_vars

\* C24: two calls of generate_hash whose params or lists of input contents
\* differ feed different byte streams to the digest.
C24_StreamInjective ==
    \A c, d \in DOMAIN hstream :
        hargs[c] # hargs[d] => hstream[c] # hstream[d]

====
